---------------------------- MODULE Spec2Model ----------------------------
(***************************************************************************)
(* A model of the FRA WebGIS dataset store (src/app_fra_webgis.py):        *)
(* FRAWebGISManager, constructed once from a GeoJSON file and an analytics *)
(* file, and the query operations the Flask routes call on it.             *)
(*                                                                         *)
(* Values.  A JSON / pandas scalar is a cell [kind, s, n, m]:              *)
(*   kind "str"  : the string s                                            *)
(*   kind "num"  : the number n (areas are whole hectares here)            *)
(*   kind "bool" : n = 1 for True, 0 for False                             *)
(*   kind "null" : JSON null, Python None, pandas NaT                      *)
(*   kind "nan"  : the float NaN                                           *)
(*   kind "date" : a pandas Timestamp of year n, month m                   *)
(* A Python dict is a function whose DOMAIN is its key set.                *)
(* The outcome of a call is Return(v) or Raise(exception type).            *)
(***************************************************************************)
EXTENDS Integers, Sequences, FiniteSets, TLC

VARIABLES
    geojson_file,     \* content of self.geojson_file on disk
    analytics_file,   \* content of self.analytics_file on disk
    claims_data,      \* self.claims_data
    analytics_data,   \* self.analytics_data
    df,               \* self.df: [columns, rows]
    log,              \* what load_data printed
    pc,               \* "new" before __init__ ran, "ready" after
    result            \* the last call: [op, arg, out]

vars == <<geojson_file, analytics_file, claims_data, analytics_data, df, log, pc, result>>

-----------------------------------------------------------------------------
(* Bounds *)

\* the largest number of features in the GeoJSON file
MaxRecords == 2

-----------------------------------------------------------------------------
(* Scalars *)

Str(t) == [kind |-> "str", s |-> t, n |-> 0, m |-> 0]

Num(x) == [kind |-> "num", s |-> "", n |-> x, m |-> 0]

Bool(b) == [kind |-> "bool", s |-> "", n |-> IF b THEN 1 ELSE 0, m |-> 0]

Date(y, mo) == [kind |-> "date", s |-> "", n |-> y, m |-> mo]

NullV == [kind |-> "null", s |-> "", n |-> 0, m |-> 0]

\* the float NaN pandas stores for a missing value
NaN == [kind |-> "nan", s |-> "", n |-> 0, m |-> 0]

\* Python None where a dict or a DataFrame is expected
PyNone == [kind |-> "none", items |-> <<>>]

PyDict(d) == [kind |-> "dict", items |-> d]

EmptyDict == <<>>

Return(v) == [kind |-> "return", value |-> v, exc |-> ""]

Raise(e) == [kind |-> "raise", value |-> NullV, exc |-> e]

\* pd.isna(v) on a scalar
IsNa(v) == v.kind \in {"null", "nan"}

\* bool(v) as used by "if filters[k]" and by the comprehension "if v"
Truthy(v) ==
    CASE v.kind = "str" -> v.s # ""
      [] v.kind = "num" -> v.n # 0
      [] v.kind = "bool" -> v.n = 1
      [] v.kind = "date" -> TRUE
      [] OTHER -> FALSE

\* the decimal literals float() is applied to in this model
DecimalValue == ("0" :> 0) @@ ("2" :> 2) @@ ("3" :> 3)

\* float(v): [ok, nan, val]; ok = FALSE is ValueError
PyFloat(v) ==
    CASE v.kind = "num" -> [ok |-> TRUE, nan |-> FALSE, val |-> v.n]
      [] v.kind = "str" /\ v.s \in DOMAIN DecimalValue ->
            [ok |-> TRUE, nan |-> FALSE, val |-> DecimalValue[v.s]]
      [] v.kind = "str" /\ v.s = "nan" -> [ok |-> TRUE, nan |-> TRUE, val |-> 0]
      [] OTHER -> [ok |-> FALSE, nan |-> FALSE, val |-> 0]

\* the date strings pd.to_datetime parses in this model
DateValue == ("2026-01-15" :> Date(2026, 1)) @@ ("2025-05-20" :> Date(2025, 5))

\* pd.to_datetime on one element: [ok, val]; ok = FALSE is a parse error
ToDatetime(v) ==
    CASE IsNa(v) -> [ok |-> TRUE, val |-> NullV]
      [] v.kind = "date" -> [ok |-> TRUE, val |-> v]
      [] v.kind = "str" /\ v.s \in DOMAIN DateValue -> [ok |-> TRUE, val |-> DateValue[v.s]]
      [] OTHER -> [ok |-> FALSE, val |-> NullV]

\* the years datetime.now().year takes at query time
Years == {2025, 2026}

-----------------------------------------------------------------------------
(* Sequence helpers *)

Range(sq) == {sq[i] : i \in DOMAIN sq}

RECURSIVE SumSeq(_)
SumSeq(sq) == IF sq = <<>> THEN 0 ELSE Head(sq) + SumSeq(Tail(sq))

-----------------------------------------------------------------------------
(* The two input files *)

\* the string-valued and flag attributes of a feature's property map
Base(st, di, vi, ty, stat, tr, fv, gps) ==
    [state |-> st, district |-> di, village |-> vi, fra_type |-> ty,
     status |-> stat, tribal_community |-> tr,
     field_verification_done |-> Bool(fv), gps_coordinates_verified |-> Bool(gps)]

\* the dict d with key k set to v
With(d, k, v) == (k :> v) @@ d

\* property maps of the features the generator can write (without claim_id):
\* numeric, null, absent and non-numeric areas; parseable, null, absent and
\* unparseable dates; a null state and community
PropsPool ==
    { With(With(Base(Str("X"), Str("D1"), Str("V1"), Str("IFR"), Str("approved"), Str("T1"), TRUE, TRUE),
                "claim_area_ha", Num(2)), "submission_date", Str("2026-01-15")),
      With(With(Base(Str("X"), Str("D1"), Str("V2"), Str("CFR"), Str("submitted"), Str("T2"), FALSE, TRUE),
                "claim_area_ha", Num(3)), "submission_date", Str("2025-05-20")),
      With(With(Base(Str("Y"), Str("D2"), Str("V1"), Str("IFR"), Str("rejected"), Str("T1"), TRUE, FALSE),
                "claim_area_ha", NullV), "submission_date", NullV),
      Base(Str("Y"), Str("D2"), Str("V2"), Str("CFR"), Str("approved"), Str("T2"), FALSE, FALSE),
      With(With(Base(Str("X"), Str("D1"), Str("V1"), Str("IFR"), Str("approved"), Str("T1"), TRUE, TRUE),
                "claim_area_ha", Str("2 acres")), "submission_date", Str("2026-01-15")),
      With(With(Base(Str("Y"), Str("D2"), Str("V2"), Str("CFR"), Str("under_review"), Str("T2"), FALSE, TRUE),
                "claim_area_ha", Num(2)), "submission_date", Str("unknown")),
      With(With(Base(NullV, Str("D1"), Str("V1"), Str("CR"), Str("approved"), NullV, TRUE, TRUE),
                "claim_area_ha", Num(3)), "submission_date", Str("2025-05-20")) }

\* a feature as written: complete, or lacking one of its two members
Templates ==
    [props : PropsPool, shape : {"ok"}]
    \cup [props : {CHOOSE p \in PropsPool : "claim_area_ha" \notin DOMAIN p},
          shape : {"no_properties", "no_geometry"}]

\* claim_id and geometry are unique per feature: they come from its position
ClaimIds == <<"FRA-1", "FRA-2", "FRA-3", "FRA-4">>

Geometries == <<"POINT(1 1)", "POINT(2 2)", "POINT(3 3)", "POINT(4 4)">>

MakeFeature(t, i) ==
    CASE t.shape = "no_properties" -> [type |-> "Feature", geometry |-> Str(Geometries[i])]
      [] t.shape = "no_geometry" ->
            [type |-> "Feature", properties |-> With(t.props, "claim_id", Str(ClaimIds[i]))]
      [] OTHER ->
            [type |-> "Feature", properties |-> With(t.props, "claim_id", Str(ClaimIds[i])),
             geometry |-> Str(Geometries[i])]

FeatureLists ==
    UNION { { [i \in 1..n |-> MakeFeature(t[i], i)] : t \in [1..n -> Templates] } : n \in 0..MaxRecords }

\* a file is missing / unreadable, not JSON, or a JSON document
GeoFiles ==
    { [kind |-> "missing", doc |-> EmptyDict], [kind |-> "malformed", doc |-> EmptyDict],
      [kind |-> "json", doc |-> [type |-> "FeatureCollection"]] }
    \cup { [kind |-> "json", doc |-> [type |-> "FeatureCollection", features |-> fl]] : fl \in FeatureLists }

AnalyticsBlob == [summary |-> [generated_by |-> Str("fra_webgis_generator")]]

AnalyticsFiles ==
    { [kind |-> "missing", doc |-> EmptyDict], [kind |-> "malformed", doc |-> EmptyDict],
      [kind |-> "json", doc |-> AnalyticsBlob] }

-----------------------------------------------------------------------------
(* DataFrame *)

NoFrame == [kind |-> "none", columns |-> {}, rows |-> <<>>]

Frame(cols, rws) == [kind |-> "frame", columns |-> cols, rows |-> rws]

\* pd.DataFrame(list of dicts): the columns are the union of the keys, a key a
\* dict lacks is NaN in its row, and None is NaN in a column of numbers
DataFrame(dicts) ==
    LET cols == UNION { DOMAIN dicts[i] : i \in DOMAIN dicts }
        present(c) == { dicts[i][c] : i \in { j \in DOMAIN dicts : c \in DOMAIN dicts[j] } }
        numeric(c) == /\ \E v \in present(c) : v.kind = "num"
                      /\ \A v \in present(c) : v.kind \in {"num", "null"}
    IN  Frame(cols, [i \in DOMAIN dicts |->
                        [c \in cols |-> IF c \notin DOMAIN dicts[i] THEN NaN
                                         ELSE IF dicts[i][c].kind = "null" /\ numeric(c) THEN NaN
                                         ELSE dicts[i][c]]])

\* "self.df is None or len(self.df) == 0"
NoData(d) == d.kind = "none" \/ Len(d.rows) = 0

-----------------------------------------------------------------------------
(* Construction *)

EmptyCollection == [type |-> "FeatureCollection", features |-> <<>>]

Fallback ==
    [claims_data |-> EmptyCollection, analytics_data |-> EmptyDict,
     df |-> Frame({}, <<>>), log |-> "error"]

\* the feature loop raises on a feature without 'properties' or 'geometry'
FeatureOk(f) == "properties" \in DOMAIN f /\ "geometry" \in DOMAIN f

FlattenFeature(f) == With(f.properties, "geometry", f.geometry)

\* load_data mutated: the handler resets only the frame
LoadDataKeepsLoaded(geo, ana) ==
    IF geo.kind # "json" THEN Fallback
    ELSE IF ana.kind # "json"
         THEN [Fallback EXCEPT !.claims_data = geo.doc]
    ELSE IF "features" \notin DOMAIN geo.doc
            \/ \E i \in DOMAIN geo.doc.features : ~FeatureOk(geo.doc.features[i])
         THEN [Fallback EXCEPT !.claims_data = geo.doc, !.analytics_data = ana.doc]
    ELSE [claims_data |-> geo.doc, analytics_data |-> ana.doc,
          df |-> DataFrame([i \in DOMAIN geo.doc.features |-> FlattenFeature(geo.doc.features[i])]),
          log |-> "loaded"]

\* load_data: any exception in the try block resets all three fields
LoadData(geo, ana) ==
    IF geo.kind # "json" THEN Fallback
    ELSE IF ana.kind # "json" THEN Fallback
    ELSE IF "features" \notin DOMAIN geo.doc THEN Fallback
    ELSE IF \E i \in DOMAIN geo.doc.features : ~FeatureOk(geo.doc.features[i]) THEN Fallback
    ELSE [claims_data |-> geo.doc, analytics_data |-> ana.doc,
          df |-> DataFrame([i \in DOMAIN geo.doc.features |-> FlattenFeature(geo.doc.features[i])]),
          log |-> "loaded"]

NoCall == [op |-> "none", arg |-> NullV, out |-> Return(NullV)]

\* __init__ before it calls load_data
Init ==
    /\ geojson_file \in GeoFiles
    /\ analytics_file \in AnalyticsFiles
    /\ claims_data = PyNone
    /\ analytics_data = PyNone
    /\ df = NoFrame
    /\ log = ""
    /\ pc = "new"
    /\ result = NoCall

\* FRAWebGISManager(geojson_file, analytics_file)
Construct ==
    /\ pc = "new"
    /\ LET l == LoadData(geojson_file, analytics_file)
       IN  /\ claims_data' = l.claims_data
           /\ analytics_data' = l.analytics_data
           /\ df' = l.df
           /\ log' = l.log
    /\ pc' = "ready"
    /\ UNCHANGED <<geojson_file, analytics_file, result>>

-----------------------------------------------------------------------------
(* get_filtered_claims *)

StringKeys == <<"state", "district", "village", "fra_type", "status", "tribal_community">>

RangeKeys == {"claim_area_min", "claim_area_max"}

\* Active mutated: a key counts as soon as it is present
ActiveIfPresent(filters, k) == k \in DOMAIN filters

\* "k in filters and filters[k]"
Active(filters, k) == k \in DOMAIN filters /\ Truthy(filters[k])

\* the six equality filters, applied in the order of the code to the rows the
\* earlier ones left; df[k] of a missing column is KeyError
RECURSIVE ApplyEquality(_, _, _, _)
ApplyEquality(cols, rows, filters, keys) ==
    IF keys = <<>> THEN Return(rows)
    ELSE LET k == Head(keys)
         IN  IF ~Active(filters, k) THEN ApplyEquality(cols, rows, filters, Tail(keys))
             ELSE IF k \notin cols THEN Raise("KeyError")
             ELSE ApplyEquality(cols, SelectSeq(rows, LAMBDA r : r[k] = filters[k]),
                                filters, Tail(keys))

\* Compare mutated: the bounds are exclusive
CompareStrict(x, bound, lower) ==
    /\ x.kind = "num"
    /\ ~bound.nan
    /\ IF lower THEN x.n > bound.val ELSE x.n < bound.val

\* "x >= bound" (lower) or "x <= bound" (upper) on one float; NaN compares False
Compare(x, bound, lower) ==
    /\ x.kind = "num"
    /\ ~bound.nan
    /\ IF lower THEN x.n >= bound.val ELSE x.n <= bound.val

\* one range filter: float() of the bound, then the comparison with every
\* remaining row; a str compared with a float is TypeError
ApplyBound(cols, rows, v, lower) ==
    LET bound == PyFloat(v)
    IN  IF ~bound.ok THEN Raise("ValueError")
        ELSE IF "claim_area_ha" \notin cols THEN Raise("KeyError")
        ELSE IF \E i \in DOMAIN rows : rows[i]["claim_area_ha"].kind = "str" THEN Raise("TypeError")
        ELSE Return(SelectSeq(rows, LAMBDA r : Compare(r["claim_area_ha"], bound, lower)))

\* the "if filters:" block: the rows left, or the exception raised
ApplyFilters(d, filters) ==
    LET eq == ApplyEquality(d.columns, d.rows, filters, StringKeys)
    IN  IF eq.kind = "raise" THEN eq
        ELSE LET lo == IF Active(filters, "claim_area_min")
                       THEN ApplyBound(d.columns, eq.value, filters["claim_area_min"], TRUE)
                       ELSE eq
             IN  IF lo.kind = "raise" THEN lo
                 ELSE IF Active(filters, "claim_area_max")
                      THEN ApplyBound(d.columns, lo.value, filters["claim_area_max"], FALSE)
                      ELSE lo

\* the cleaning of one property value: NaN and None become None
Clean(v) == IF IsNa(v) THEN NullV ELSE v

\* one row back as a GeoJSON feature
ToFeature(cols, r) ==
    [type |-> "Feature",
     properties |-> [k \in cols \ {"geometry"} |-> Clean(r[k])],
     geometry |-> r["geometry"]]

\* get_filtered_claims(filters); filters is PyNone or PyDict(mapping)
FilteredClaims(d, filters) ==
    IF NoData(d) THEN Return([type |-> "FeatureCollection", features |-> <<>>])
    ELSE LET kept == IF filters.kind = "dict" /\ DOMAIN filters.items # {}
                     THEN ApplyFilters(d, filters.items)
                     ELSE Return(d.rows)
         IN  IF kept.kind = "raise" THEN kept
             ELSE LET features == [i \in DOMAIN kept.value |-> ToFeature(d.columns, kept.value[i])]
                  IN  Return([type |-> "FeatureCollection",
                              features |-> features,
                              properties |-> [total_claims |-> Len(features),
                                              filters_applied |-> filters.items]])

-----------------------------------------------------------------------------
(* Aggregation helpers *)

\* the number of rows of rows whose column c holds v
CountEq(rows, c, v) == Len(SelectSeq(rows, LAMBDA r : r[c] = v))

\* CountNotNa mutated: the count is taken on the area column
CountAreaNotNa(rows, c) == Len(SelectSeq(rows, LAMBDA r : ~IsNa(r["claim_area_ha"])))

\* 'count': the number of non-null values of column c
CountNotNa(rows, c) == Len(SelectSeq(rows, LAMBDA r : ~IsNa(r[c])))

\* Series.value_counts().to_dict(): non-null value -> number of rows
ValueCounts(rows, c) ==
    LET vals == { rows[i][c].s : i \in { j \in DOMAIN rows : ~IsNa(rows[j][c]) } }
    IN  [v \in vals |-> CountEq(rows, c, Str(v))]

\* the sum of a group as pandas adds it: nulls are skipped, the first value is
\* taken as it is, every later one is added with +; a float + a str is
\* TypeError, a str + a str is their concatenation
RECURSIVE AddAll(_, _)
AddAll(acc, cells) ==
    IF cells = <<>> THEN Return(acc)
    ELSE LET v == Head(cells)
         IN  IF acc.kind = "num" /\ v.kind = "num" THEN AddAll(Num(acc.n + v.n), Tail(cells))
             ELSE IF acc.kind = "str" /\ v.kind = "str" THEN AddAll(Str(acc.s \o v.s), Tail(cells))
             ELSE Raise("TypeError")

AreaCells(rows) ==
    LET kept == SelectSeq(rows, LAMBDA r : ~IsNa(r["claim_area_ha"]))
    IN  [i \in DOMAIN kept |-> kept[i]["claim_area_ha"]]

\* groupby(...)['claim_area_ha'].sum() of one group
GroupAreaSum(rows) ==
    LET cells == AreaCells(rows)
    IN  IF cells = <<>> THEN Return(Num(0)) ELSE AddAll(Head(cells), Tail(cells))

\* round(a / b, 2) in hundredths, for b > 0
RoundDiv(a, b) == (2 * 100 * a + b) \div (2 * b)

-----------------------------------------------------------------------------
(* get_state_wise_summary, get_tribal_community_analysis *)

SummaryColumns == {"claim_id", "claim_area_ha", "status", "fra_type"}

\* df.groupby(key).agg({...}).rename(...).to_dict('index')
GroupSummary(d, key) ==
    IF NoData(d) THEN Return(EmptyDict)
    ELSE IF key \notin d.columns \/ ~(SummaryColumns \subseteq d.columns) THEN Raise("KeyError")
    ELSE LET groups == { d.rows[i][key].s : i \in { j \in DOMAIN d.rows : ~IsNa(d.rows[j][key]) } }
             of(g) == SelectSeq(d.rows, LAMBDA r : r[key] = Str(g))
         IN  IF \E g \in groups : GroupAreaSum(of(g)).kind = "raise" THEN Raise("TypeError")
             ELSE Return([g \in groups |->
                            [total_claims |-> CountNotNa(of(g), "claim_id"),
                             claim_area_ha |-> GroupAreaSum(of(g)).value,
                             approved_claims |-> CountEq(of(g), "status", Str("approved")),
                             fra_type |-> ValueCounts(of(g), "fra_type")]])

StateWiseSummary(d) == GroupSummary(d, "state")

TribalCommunityAnalysis(d) == GroupSummary(d, "tribal_community")

-----------------------------------------------------------------------------
(* get_timeline_analysis *)

\* the three column assignments; they run only when to_datetime raised nothing
WithDateColumns(d) ==
    Frame(d.columns \cup {"submission_year", "submission_month"},
          [i \in DOMAIN d.rows |->
              LET ts == ToDatetime(d.rows[i]["submission_date"]).val
              IN  [c \in d.columns \cup {"submission_year", "submission_month"} |->
                      CASE c = "submission_date" -> ts
                        [] c = "submission_year" -> IF ts.kind = "date" THEN Num(ts.n) ELSE NaN
                        [] c = "submission_month" -> IF ts.kind = "date" THEN Num(ts.m) ELSE NaN
                        [] OTHER -> d.rows[i][c]]])

\* the yearly and the monthly groupby on the frame with the date columns
TimelineRollup(d, now) ==
    IF ~({"claim_id", "claim_area_ha", "status"} \subseteq d.columns) THEN Raise("KeyError")
    ELSE LET years == { d.rows[i]["submission_year"].n :
                          i \in { j \in DOMAIN d.rows : ~IsNa(d.rows[j]["submission_year"]) } }
             inYear(y) == SelectSeq(d.rows, LAMBDA r : r["submission_year"] = Num(y))
             current == inYear(now)
             months == { current[i]["submission_month"].n : i \in DOMAIN current }
             inMonth(mo) == SelectSeq(current, LAMBDA r : r["submission_month"] = Num(mo))
         IN  IF \/ \E y \in years : GroupAreaSum(inYear(y)).kind = "raise"
                \/ \E mo \in months : GroupAreaSum(inMonth(mo)).kind = "raise"
             THEN Raise("TypeError")
             ELSE Return([yearly |-> [y \in years |->
                                        [claims_submitted |-> CountNotNa(inYear(y), "claim_id"),
                                         claim_area_ha |-> GroupAreaSum(inYear(y)).value,
                                         claims_approved |-> CountEq(inYear(y), "status", Str("approved"))]],
                          monthly |-> [mo \in months |->
                                        [claims_submitted |-> CountNotNa(inMonth(mo), "claim_id"),
                                         claim_area_ha |-> GroupAreaSum(inMonth(mo)).value]]])

\* get_timeline_analysis at a time whose year is now: [out, df]
TimelineAnalysis(d, now) ==
    IF NoData(d) THEN [out |-> Return(EmptyDict), df |-> d]
    ELSE IF "submission_date" \notin d.columns THEN [out |-> Raise("KeyError"), df |-> d]
    ELSE IF \E i \in DOMAIN d.rows : ~ToDatetime(d.rows[i]["submission_date"]).ok
         THEN [out |-> Raise("ValueError"), df |-> d]
    ELSE [out |-> TimelineRollup(WithDateColumns(d), now), df |-> WithDateColumns(d)]

-----------------------------------------------------------------------------
(* get_performance_metrics *)

PendingStatuses == {Str("submitted"), Str("under_review"), Str("field_verification")}

\* rates, total and mean are in hundredths (two decimals)
PerformanceMetrics(d) ==
    IF NoData(d) THEN Return(EmptyDict)
    ELSE IF ~({"status", "claim_area_ha", "field_verification_done",
               "gps_coordinates_verified"} \subseteq d.columns) THEN Raise("KeyError")
    ELSE IF \E i \in DOMAIN d.rows : d.rows[i]["claim_area_ha"].kind = "str" THEN Raise("TypeError")
    ELSE LET total == Len(d.rows)
             approved == CountEq(d.rows, "status", Str("approved"))
             pending == Len(SelectSeq(d.rows, LAMBDA r : r["status"] \in PendingStatuses))
             areas == AreaCells(d.rows)
             area == SumSeq([i \in DOMAIN areas |-> areas[i].n])
             rate(k) == IF total > 0 THEN RoundDiv(100 * k, total) ELSE 0
         IN  Return([total_claims |-> total,
                     approved_claims |-> approved,
                     pending_claims |-> pending,
                     rejected_claims |-> CountEq(d.rows, "status", Str("rejected")),
                     approval_rate |-> rate(approved),
                     pending_rate |-> rate(pending),
                     total_area_ha |-> Num(100 * area),
                     average_claim_size_ha |->
                         IF Len(areas) = 0 THEN NaN ELSE Num(RoundDiv(area, Len(areas))),
                     field_verification_rate |-> rate(CountEq(d.rows, "field_verification_done", Bool(TRUE))),
                     gps_verification_rate |-> rate(CountEq(d.rows, "gps_coordinates_verified", Bool(TRUE)))])

-----------------------------------------------------------------------------
(* get_analytics, get_claim_details *)

\* json.dumps succeeds on whatever json.load returned and on {}, so the
\* except branch is never taken
Analytics(blob) == Return(blob)

ClaimDetails(d, claim_id) ==
    IF NoData(d) THEN Return(NullV)
    ELSE LET claim == SelectSeq(d.rows, LAMBDA r : r["claim_id"] = Str(claim_id))
         IN  IF Len(claim) = 0 THEN Return(NullV) ELSE Return(claim[1])

-----------------------------------------------------------------------------
(* The routes /api/claims and /api/filter-options *)

Response(code, payload) == [kind |-> "response", status |-> code, body |-> payload]

FilterKeys == Range(StringKeys) \cup RangeKeys

\* the filters dict of get_claims: request.args.get of the eight keys (None
\* when the parameter is absent), then the falsy ones removed
RequestFilters(args) ==
    LET got == [k \in FilterKeys |-> IF k \in DOMAIN args THEN args[k] ELSE NullV]
    IN  [k \in { j \in FilterKeys : Truthy(got[j]) } |-> got[k]]

\* get_claims: the try block, and the handler of any exception
ApiClaims(d, args) ==
    LET data == FilteredClaims(d, PyDict(RequestFilters(args)))
    IN  IF data.kind = "raise"
        THEN Response(500, [error |-> data.exc, features |-> <<>>])
        ELSE Response(200, data.value)

\* df[c].unique().tolist()
Unique(d, c) == { d.rows[i][c] : i \in DOMAIN d.rows }

\* sorted() compares the elements pairwise: None or NaN against a str is TypeError
Sortable(vals) == Cardinality(vals) < 2 \/ \A v \in vals : ~IsNa(v)

\* get_filter_options; a sorted list of distinct values is given as their set
ApiFilterOptions(d) ==
    IF NoData(d) THEN Response(200, EmptyDict)
    ELSE IF ~(Range(StringKeys) \subseteq d.columns) THEN Response(500, [error |-> "KeyError"])
    ELSE IF \E c \in Range(StringKeys) : ~Sortable(Unique(d, c)) THEN Response(500, [error |-> "TypeError"])
    ELSE Response(200, [states |-> Unique(d, "state"),
                        districts |-> Unique(d, "district"),
                        villages |-> Unique(d, "village"),
                        fra_types |-> Unique(d, "fra_type"),
                        statuses |-> Unique(d, "status"),
                        tribal_communities |-> Unique(d, "tribal_community")])

-----------------------------------------------------------------------------
(* The criteria the operations are called with *)

\* the values a caller passes under each key
CriteriaValues ==
    [state |-> {Str("X"), Str(""), NullV},
     district |-> {Str("D1")},
     village |-> {Str("V1")},
     fra_type |-> {Str("IFR")},
     status |-> {Str("approved")},
     tribal_community |-> {Str("T1"), NullV},
     claim_area_min |-> {Str("2"), Str("3"), Str("abc"), Str("nan")},
     claim_area_max |-> {Str("2"), Str("0"), Str("abc"), Str("")},
     bbox |-> {Str("0,0,9,9")}]

\* the keys that are also combined two by two
PairKeys == {"state", "status", "claim_area_min", "claim_area_max"}

Singles == UNION { { k :> v : v \in CriteriaValues[k] } : k \in DOMAIN CriteriaValues }

Pairs ==
    UNION { { (kk[1] :> v1) @@ (kk[2] :> v2) : v1 \in CriteriaValues[kk[1]], v2 \in CriteriaValues[kk[2]] } :
            kk \in { p \in PairKeys \X PairKeys : p[1] # p[2] } }

Mappings == {EmptyDict} \cup Singles \cup Pairs

\* filters of get_filtered_claims: None or a dict
Criteria == {PyNone} \cup { PyDict(mp) : mp \in Mappings }

\* request.args: every value is a string
QueryArgs == { mp \in Mappings : \A k \in DOMAIN mp : mp[k].kind = "str" }

-----------------------------------------------------------------------------
(* Operations *)

Call(name, argument, outcome) == [op |-> name, arg |-> argument, out |-> outcome]

Frozen == <<geojson_file, analytics_file, claims_data, analytics_data, log, pc>>

\* the store is constructed and no call is in progress: requests are served
\* one at a time
Idle == pc = "ready" /\ result = NoCall

\* the call returns: its outcome goes to the caller and is no longer held
Deliver ==
    /\ pc = "ready"
    /\ result # NoCall
    /\ result' = NoCall
    /\ UNCHANGED <<Frozen, df>>

GetFilteredClaims ==
    /\ Idle
    /\ \E filters \in Criteria :
          result' = Call("get_filtered_claims", filters, FilteredClaims(df, filters))
    /\ UNCHANGED <<Frozen, df>>

GetClaims ==
    /\ Idle
    /\ \E args \in QueryArgs : result' = Call("get_claims", args, ApiClaims(df, args))
    /\ UNCHANGED <<Frozen, df>>

GetAnalytics ==
    /\ Idle
    /\ result' = Call("get_analytics", NullV, Analytics(analytics_data))
    /\ UNCHANGED <<Frozen, df>>

GetClaimDetails ==
    /\ Idle
    /\ \E id \in Range(ClaimIds) : result' = Call("get_claim_details", id, ClaimDetails(df, id))
    /\ UNCHANGED <<Frozen, df>>

GetStateWiseSummary ==
    /\ Idle
    /\ result' = Call("get_state_wise_summary", NullV, StateWiseSummary(df))
    /\ UNCHANGED <<Frozen, df>>

GetTribalCommunityAnalysis ==
    /\ Idle
    /\ result' = Call("get_tribal_community_analysis", NullV, TribalCommunityAnalysis(df))
    /\ UNCHANGED <<Frozen, df>>

GetTimelineAnalysis ==
    /\ Idle
    /\ \E now \in Years :
          LET t == TimelineAnalysis(df, now)
          IN  /\ result' = Call("get_timeline_analysis", now, t.out)
              /\ df' = t.df
    /\ UNCHANGED Frozen

GetPerformanceMetrics ==
    /\ Idle
    /\ result' = Call("get_performance_metrics", NullV, PerformanceMetrics(df))
    /\ UNCHANGED <<Frozen, df>>

GetFilterOptions ==
    /\ Idle
    /\ result' = Call("get_filter_options", NullV, ApiFilterOptions(df))
    /\ UNCHANGED <<Frozen, df>>

Next ==
    \/ Construct
    \/ GetFilteredClaims
    \/ GetClaims
    \/ GetAnalytics
    \/ GetClaimDetails
    \/ GetStateWiseSummary
    \/ GetTribalCommunityAnalysis
    \/ GetTimelineAnalysis
    \/ GetPerformanceMetrics
    \/ GetFilterOptions
    \/ Deliver

Spec == Init /\ [][Next]_vars

-----------------------------------------------------------------------------
(* Properties *)

\* the frame as load_data built it from the two files
LoadedFrame == LoadData(geojson_file, analytics_file).df

RECURSIVE SumOver(_, _)
SumOver(f, S) ==
    IF S = {} THEN 0
    ELSE LET x == CHOOSE y \in S : TRUE IN f[x] + SumOver(f, S \ {x})

\* a criterion is active: a recognised key whose value is not absent, null or empty
SpecActive(c, k) == k \in DOMAIN c /\ c[k].kind # "null" /\ c[k] # Str("")

NonNumericBound(c) ==
    \E k \in RangeKeys : SpecActive(c, k) /\ ~PyFloat(c[k]).ok

\* the record r satisfies every active criterion of c
Satisfies(r, c) ==
    /\ \A k \in Range(StringKeys) : SpecActive(c, k) => (k \in DOMAIN r /\ r[k] = c[k])
    /\ SpecActive(c, "claim_area_min") =>
          /\ "claim_area_ha" \in DOMAIN r
          /\ r["claim_area_ha"].kind = "num"
          /\ ~PyFloat(c["claim_area_min"]).nan
          /\ r["claim_area_ha"].n >= PyFloat(c["claim_area_min"]).val
    /\ SpecActive(c, "claim_area_max") =>
          /\ "claim_area_ha" \in DOMAIN r
          /\ r["claim_area_ha"].kind = "num"
          /\ ~PyFloat(c["claim_area_max"]).nan
          /\ r["claim_area_ha"].n <= PyFloat(c["claim_area_max"]).val

MatchingIds(c) ==
    { df.rows[i]["claim_id"].s : i \in { j \in DOMAIN df.rows : Satisfies(df.rows[j], c) } }

ReturnedIds(fc) == { fc.features[i].properties["claim_id"].s : i \in DOMAIN fc.features }

ExactlyMatching(fc, c) ==
    /\ ReturnedIds(fc) = MatchingIds(c)
    /\ Len(fc.features) = Cardinality(ReturnedIds(fc))

\* C1: no query changes the dataset: the frame stays the one load_data built,
\* and filter and get answer as they would right after loading
C1_QueriesLeaveDatasetUnchanged ==
    pc = "ready" =>
        /\ df = LoadedFrame
        /\ result.op = "get_filtered_claims" =>
              result.out = FilteredClaims(LoadedFrame, result.arg)
        /\ result.op = "get_claim_details" =>
              result.out = ClaimDetails(LoadedFrame, result.arg)

\* C2: a filter that returns, returns exactly the records that satisfy every
\* active criterion (equality on the six string keys, inclusive bounds on the
\* area), each once; unrecognised keys constrain nothing
C2_FilterReturnsExactlyMatching ==
    /\ (result.op = "get_filtered_claims" /\ result.out.kind = "return") =>
          ExactlyMatching(result.out.value, result.arg.items)
    /\ (result.op = "get_claims" /\ result.out.status = 200) =>
          ExactlyMatching(result.out.body, result.arg)

C2_Witness ==
    /\ result.op = "get_filtered_claims"
    /\ result.out.kind = "return"
    /\ SpecActive(result.arg.items, "state")
    /\ SpecActive(result.arg.items, "claim_area_min")
    /\ Len(df.rows) = 2
    /\ Len(result.out.value.features) = 1

\* C3: with no active criterion (None, {}, or only null / empty values) the
\* filter returns every loaded record, in the order of the loaded collection
C3_NoCriteriaReturnsAll ==
    (/\ result.op = "get_filtered_claims"
     /\ \A k \in FilterKeys : ~SpecActive(result.arg.items, k)) =>
        /\ result.out.kind = "return"
        /\ Len(result.out.value.features) = Len(claims_data.features)
        /\ \A i \in DOMAIN claims_data.features :
              /\ result.out.value.features[i].properties["claim_id"]
                    = claims_data.features[i].properties["claim_id"]
              /\ result.out.value.features[i].geometry = claims_data.features[i].geometry

C3_Witness ==
    /\ result.op = "get_filtered_claims"
    /\ result.arg.kind = "dict"
    /\ "state" \in DOMAIN result.arg.items
    /\ result.arg.items["state"] = Str("")
    /\ \A k \in FilterKeys : ~SpecActive(result.arg.items, k)
    /\ Len(result.out.value.features) = 2

\* C4: a list-claims request with a non-numeric area bound ends in an error
\* result with no records, on every dataset
C4_NonNumericBoundIsError ==
    (result.op = "get_claims" /\ NonNumericBound(result.arg)) =>
        /\ result.out.status = 500
        /\ "error" \in DOMAIN result.out.body
        /\ result.out.body.features = <<>>

\* C5: the result of a filter carries total_claims, the number of records it
\* returns, and filters_applied, the criteria passed in
C5_FilterResultCarriesMetadata ==
    (result.op = "get_filtered_claims" /\ result.out.kind = "return") =>
        /\ "properties" \in DOMAIN result.out.value
        /\ result.out.value.properties.total_claims = Len(result.out.value.features)
        /\ result.out.value.properties.filters_applied = result.arg.items

RollupKey == [get_state_wise_summary |-> "state", get_tribal_community_analysis |-> "tribal_community"]

\* C6: in a rollup of a dataset whose records all have a group key, the
\* total_claims of the groups add up to the number of records, and a group's
\* approved_claims is the number of its approved records
C6_RollupCountsAddUp ==
    (/\ result.op \in DOMAIN RollupKey
     /\ result.out.kind = "return"
     /\ \A i \in DOMAIN df.rows : ~IsNa(df.rows[i][RollupKey[result.op]])) =>
        LET by == result.out.value
            key == RollupKey[result.op]
        IN  /\ SumOver([g \in DOMAIN by |-> by[g].total_claims], DOMAIN by) = Len(df.rows)
            /\ \A g \in DOMAIN by :
                  /\ by[g].approved_claims =
                        Cardinality({ i \in DOMAIN df.rows :
                                        /\ df.rows[i][key] = Str(g)
                                        /\ df.rows[i]["status"] = Str("approved") })
                  /\ by[g].approved_claims <= by[g].total_claims

C6_Witness ==
    /\ result.op = "get_state_wise_summary"
    /\ result.out.kind = "return"
    /\ Len(df.rows) = 2
    /\ \E g \in DOMAIN result.out.value :
          /\ result.out.value[g].total_claims = 2
          /\ result.out.value[g].approved_claims = 1

\* C7: on an empty dataset the rollups return {}, the timeline empty yearly
\* and monthly parts, the performance total_claims 0 and rates 0, and the
\* distinct-value listing an empty list per field; none raises
C7_EmptyDatasetZeroForms ==
    (pc = "ready" /\ NoData(df)) =>
        /\ result.op \in DOMAIN RollupKey => result.out = Return(EmptyDict)
        /\ result.op = "get_timeline_analysis" =>
              /\ result.out.kind = "return"
              /\ {"yearly", "monthly"} \subseteq DOMAIN result.out.value
        /\ result.op = "get_performance_metrics" =>
              /\ result.out.kind = "return"
              /\ "total_claims" \in DOMAIN result.out.value
              /\ result.out.value.total_claims = 0
              /\ result.out.value.approval_rate = 0
              /\ result.out.value.pending_rate = 0
        /\ result.op = "get_filter_options" =>
              /\ result.out.status = 200
              /\ DOMAIN result.out.body =
                    {"states", "districts", "villages", "fra_types", "statuses", "tribal_communities"}
              /\ \A k \in DOMAIN result.out.body : result.out.body[k] = {}

GeoOk(geo) ==
    /\ geo.kind = "json"
    /\ "features" \in DOMAIN geo.doc
    /\ \A i \in DOMAIN geo.doc.features : {"properties", "geometry"} \subseteq DOMAIN geo.doc.features[i]

\* C8: construction is all-or-nothing: with both files good the store holds the
\* file's records and blob; otherwise it holds zero records, the empty
\* collection and the empty blob together, and stays so
C8_LoadAllOrNothing ==
    pc = "ready" =>
        IF GeoOk(geojson_file) /\ analytics_file.kind = "json"
        THEN /\ log = "loaded"
             /\ claims_data = geojson_file.doc
             /\ analytics_data = analytics_file.doc
             /\ Len(df.rows) = Len(geojson_file.doc.features)
        ELSE /\ log = "error"
             /\ claims_data = EmptyCollection
             /\ analytics_data = EmptyDict
             /\ df.kind = "frame" /\ Len(df.rows) = 0

C8_Witness ==
    /\ pc = "ready"
    /\ GeoOk(geojson_file)
    /\ Len(geojson_file.doc.features) = 2
    /\ analytics_file.kind = "malformed"
    /\ log = "error"
    /\ result.op = "get_analytics"

AreaValues(d) == IF "claim_area_ha" \in d.columns
                 THEN { d.rows[i]["claim_area_ha"] : i \in DOMAIN d.rows }
                 ELSE {}

DatesParse(d) ==
    /\ "submission_date" \in d.columns
    /\ \A i \in DOMAIN d.rows : ToDatetime(d.rows[i]["submission_date"]).ok

\* the sum of the numeric areas of the records whose column key holds g
NumericAreaSum(key, g) ==
    LET rows == { i \in DOMAIN df.rows :
                    df.rows[i][key] = Str(g) /\ df.rows[i]["claim_area_ha"].kind = "num" }
    IN  SumOver([i \in rows |-> df.rows[i]["claim_area_ha"].n], rows)

\* C9: with records whose area is missing or non-numeric, no aggregate and no
\* range filter raises, a rollup's area sum is the sum of the numeric areas,
\* and no such record passes an active area bound
C9_BadAreasNeverRaise ==
    (pc = "ready" /\ ~NoData(df)) =>
        /\ (result.op \in DOMAIN RollupKey \cup {"get_performance_metrics"}) =>
              result.out.kind = "return"
        /\ result.op \in DOMAIN RollupKey =>
              \A g \in DOMAIN result.out.value :
                  result.out.value[g]["claim_area_ha"] = Num(NumericAreaSum(RollupKey[result.op], g))
        /\ (result.op = "get_timeline_analysis" /\ DatesParse(LoadedFrame)) =>
              result.out.kind = "return"
        /\ (/\ result.op = "get_filtered_claims"
            /\ ~NonNumericBound(result.arg.items)
            /\ \E k \in RangeKeys : SpecActive(result.arg.items, k)) =>
              /\ result.out.kind = "return"
              /\ \A i \in DOMAIN result.out.value.features :
                    result.out.value.features[i].properties["claim_area_ha"].kind = "num"

\* the rows of the loaded frame whose submission_date is a parseable date
ValidDateRows ==
    { i \in DOMAIN LoadedFrame.rows :
        /\ "submission_date" \in LoadedFrame.columns
        /\ LoadedFrame.rows[i]["submission_date"].kind = "str"
        /\ LoadedFrame.rows[i]["submission_date"].s \in DOMAIN DateValue }

\* C10: the timeline never fails on missing or unparseable dates; the yearly
\* counts add up to the number of records with a valid date and the monthly
\* counts to the number of records of the current year
C10_TimelineToleratesBadDates ==
    (/\ result.op = "get_timeline_analysis"
     /\ ~NoData(df)
     /\ AreaValues(df) # {}
     /\ \A v \in AreaValues(df) : v.kind \in {"num", "nan"}) =>
        /\ result.out.kind = "return"
        /\ LET yearly == result.out.value.yearly
               monthly == result.out.value.monthly
           IN  /\ SumOver([y \in DOMAIN yearly |-> yearly[y].claims_submitted], DOMAIN yearly)
                     = Cardinality(ValidDateRows)
               /\ SumOver([mo \in DOMAIN monthly |-> monthly[mo].claims_submitted], DOMAIN monthly)
                     = Cardinality({ i \in ValidDateRows :
                                       DateValue[LoadedFrame.rows[i]["submission_date"].s].n = result.arg })

=============================================================================
